---- MODULE Spec2Model ----
(***************************************************************************)
(* Model of the sales-bonus repository: the exported functions             *)
(* calculateSimpleRevenue, calculateBonusByProfit and analyzeSalesData of  *)
(* src/src/main.js ("main") and of the three further copies of the same    *)
(* module held in src/unnamed/part_000 ("v1": lines 1-156, "v2": lines     *)
(* 157-310, "v3": lines 311-457).                                          *)
(*                                                                         *)
(* Numbers.  A JavaScript number holding money is modelled exactly, as an  *)
(* integer count of 1/Cent of a cent; every amount the model builds is a   *)
(* multiple of 100 of these, so that x * 0.15, x * 0.10 and x * 0.05 are   *)
(* integers too.  Binary floating-point error is outside the model.        *)
(*                                                                         *)
(* Objects used as maps.  sellerIndex and productIndex are looked up by    *)
(* key; products_sold is also enumerated (Object.entries), so it is kept   *)
(* as the sequence of its own keys in creation order, and ObjectEntries    *)
(* applies the enumeration order of a JavaScript object.  Identifiers are  *)
(* ordinary strings: a key that names a property every object inherits     *)
(* ("constructor", "__proto__", ...) is not among the inputs drawn.        *)
(***************************************************************************)
EXTENDS Integers, Sequences, FiniteSets, TLC

VARIABLES
    fn,            \* the exported function being called
    impl,          \* which copy of the module is running
    data,          \* analyzeSalesData: first argument
    options,       \* analyzeSalesData: second argument
    bonusArgs,     \* calculateBonusByProfit: (index, total, seller.profit)
    pc,            \* position in the function body
    sellerStats,   \* analyzeSalesData: const sellerStats
    cursor,        \* index of the next purchase record forEach will visit
    revenueCalls,  \* log of the calls made to options.calculateRevenue
    bonusCalls,    \* log of the calls made to options.calculateBonus
    error,         \* the Error thrown, "" when none
    result,        \* analyzeSalesData: the report returned
    bonusResult    \* calculateBonusByProfit: the number returned

vars == <<fn, impl, data, options, bonusArgs, pc, sellerStats, cursor,
          revenueCalls, bonusCalls, error, result, bonusResult>>

----------------------------------------------------------------------------
(* Bounds of the model *)

MaxSellers == 2
MaxRecords == 2
MaxTotal == 5
MaxProfitSteps == 3

(* Program constants *)

TopN == 10

Cent == 100 * 100

Impls == {"main", "v1", "v2", "v3"}

----------------------------------------------------------------------------
(* Generic helpers *)

Range(s) == {s[i] : i \in 1..Len(s)}

RECURSIVE SumSeq(_)
SumSeq(s) == IF s = <<>> THEN 0 ELSE Head(s) + SumSeq(Tail(s))

RECURSIVE Flatten(_)
Flatten(ss) == IF ss = <<>> THEN <<>> ELSE Head(ss) \o Flatten(Tail(ss))

Take(s, n) == SubSeq(s, 1, IF Len(s) < n THEN Len(s) ELSE n)

SeqsUpTo(S, n) == UNION {[1..k -> S] : k \in 1..n}

----------------------------------------------------------------------------
(* JavaScript number formatting *)

\* Math.round(x * 100) / 100: to the nearest cent, a half goes up
MathRound2(x) == ((2 * x + Cent) \div (2 * Cent)) * Cent

\* +x.toFixed(2), parseFloat(x.toFixed(2)): to the nearest cent, a half goes
\* away from zero
ToFixed2(x) ==
    IF x >= 0 THEN ((2 * x + Cent) \div (2 * Cent)) * Cent
    ELSE -(((2 * (-x) + Cent) \div (2 * Cent)) * Cent)

----------------------------------------------------------------------------
(* The inputs drawn *)

\* SKUs of the line items; "10" and "2" are the keys that a JavaScript
\* object treats as array indices, "zz" has no card in data.products
Skus == <<"10", "2", "zz", "a", "b", "c", "d", "e", "f", "g", "h", "i">>

NumSkus == Len(Skus)

UnknownSkus == {"zz"}

SellerIds == <<"s1", "s2", "s3", "s4">>

FirstNames == <<"Ann", "Bob", "Cid", "Dee">>

LastNames == <<"Ash", "Birch", "Cedar", "Doe">>

\* a seller_id that no seller of the drawn data.sellers carries
NoSeller == "nobody"

Sellers(n) ==
    [i \in 1..n |-> [id |-> SellerIds[i],
                     first_name |-> FirstNames[i],
                     last_name |-> LastNames[i]]]

PurchasePriceOf(i) == IF i % 2 = 1 THEN Cent ELSE 6 * Cent

ProductCard(i) == [known |-> TRUE, sku |-> Skus[i],
                   purchase_price |-> PurchasePriceOf(i)]

KnownSkuNumbers == {i \in 1..NumSkus : Skus[i] \notin UnknownSkus}

RECURSIVE CardsFrom(_)
CardsFrom(i) ==
    IF i > NumSkus THEN <<>>
    ELSE (IF i \in KnownSkuNumbers THEN <<ProductCard(i)>> ELSE <<>>)
         \o CardsFrom(i + 1)

Products == CardsFrom(1)

Item(i, q) ==
    [sku |-> Skus[i], quantity |-> q, sale_price |-> 3 * Cent,
     discount |-> IF i % 3 = 0 THEN 25 ELSE 0]

\* len consecutive SKUs starting at the start-th, with quantities
\* 2, 2, 1, 1, 2, 2, ...
Run(start, len) ==
    [k \in 1..len |->
        Item(((start + k - 2) % NumSkus) + 1, 1 + (((k + 1) \div 2) % 2))]

\* receipts of up to two lines
ShortLists == {Run(1, 0), Run(1, 2), Run(2, 2)}

\* receipts of one line more than top_products can hold
LongLists == {Run(start, TopN + 1) : start \in 1..3}

\* what the receipt shows: the discounted prices of its items, to the cent
ReceiptTotal(items) ==
    ToFixed2(SumSeq([k \in 1..Len(items) |->
        (items[k].sale_price * items[k].quantity * (100 - items[k].discount))
            \div 100]))

Record(seller_id, items) ==
    [seller_id |-> seller_id, total_amount |-> ReceiptTotal(items),
     items |-> items]

RecordPool(n) ==
    {Record(id, items) : id \in {SellerIds[i] : i \in 1..n} \cup {NoSeller},
                         items \in ShortLists}

\* the receipts of one seller who sells the whole range
LongPool ==
    {Record(SellerIds[1], items) : items \in LongLists \cup (ShortLists \ {<<>>})}

Collection(shape, val) == [shape |-> shape, val |-> val]

Missing == Collection("absent", <<>>)

ValidData(n, records) ==
    [kind |-> "object",
     sellers |-> Collection("array", Sellers(n)),
     products |-> Collection("array", Products),
     purchase_records |-> Collection("array", records),
     customers |-> Collection("array", <<>>)]

ContentData ==
    UNION {{ValidData(n, records) :
                records \in SeqsUpTo(RecordPool(n), MaxRecords)} :
           n \in 1..MaxSellers}
    \cup {ValidData(1, records) : records \in SeqsUpTo(LongPool, MaxRecords)}

\* every way a required collection can look to the validator
CollectionShapes ==
    {Missing, Collection("notArray", <<>>), Collection("array", <<>>)}

\* a value that is a function object may carry the same properties
ShapeData ==
    {[kind |-> k, sellers |-> s, products |-> p, purchase_records |-> r,
      customers |-> c] :
        k \in {"object", "function"},
        s \in CollectionShapes \cup {Collection("array", Sellers(1))},
        p \in CollectionShapes \cup {Collection("array", Products)},
        r \in CollectionShapes
              \cup {Collection("array", <<Record(SellerIds[1], Run(1, 2))>>)},
        c \in {Missing, Collection("notArray", <<>>), Collection("array", <<>>)}}

\* null, undefined and the other falsy values; a primitive has no property
NoData ==
    {[kind |-> k, sellers |-> Missing, products |-> Missing,
      purchase_records |-> Missing, customers |-> Missing] :
        k \in {"absent", "primitive"}}

Callable(name) == [kind |-> "function", name |-> name]

NotCallable == {[kind |-> k, name |-> ""] : k \in {"absent", "notFunction"}}

\* the module's own two policies, or two policies of the caller
ValidOptions ==
    {[kind |-> "object",
      calculateRevenue |-> Callable("calculateSimpleRevenue"),
      calculateBonus |-> Callable("calculateBonusByProfit")],
     [kind |-> "object",
      calculateRevenue |-> Callable("costPlus"),
      calculateBonus |-> Callable("byRank")]}

ShapeOptions ==
    {[kind |-> k, calculateRevenue |-> r, calculateBonus |-> b] :
        k \in {"absent", "primitive", "function"},
        r \in {[kind |-> "absent", name |-> ""]},
        b \in {[kind |-> "absent", name |-> ""]}}
    \cup
    {[kind |-> "object", calculateRevenue |-> r, calculateBonus |-> b] :
        r \in NotCallable \cup {Callable("calculateSimpleRevenue")},
        b \in NotCallable \cup {Callable("calculateBonusByProfit")}}

IdleData == CHOOSE d \in NoData : d.kind = "absent"

IdleOptions == CHOOSE o \in ShapeOptions : o.kind = "absent"

IdleBonusArgs == [index |-> 0, total |-> 0, profit |-> 0]

BonusArgs ==
    {[index |-> i, total |-> t, profit |-> k * (Cent \div 2)] :
        t \in 1..MaxTotal, i \in 0..(MaxTotal - 1),
        k \in (-MaxProfitSteps)..MaxProfitSteps}

----------------------------------------------------------------------------
(* calculateSimpleRevenue, calculateBonusByProfit and the policies a caller
   passes instead of them *)

Absent == [known |-> FALSE, sku |-> "", purchase_price |-> 0]

calculateSimpleRevenue(im, purchase, product) ==
    LET revenue == (purchase.sale_price * purchase.quantity
                        * (100 - purchase.discount)) \div 100
    IN  IF im = "v1" THEN MathRound2(revenue) ELSE revenue

\* a caller's revenue policy that reads the product card
costPlus(item, product) ==
    IF product.known THEN product.purchase_price * item.quantity + Cent
    ELSE item.sale_price * item.quantity

Percent(profit, n) == (profit * n) \div 100

\* a tiering that looks at the last rank before it looks at ranks 1 and 2
calculateBonusLastFirst(im, index, total, seller) ==
    LET profit == seller.profit
        amount(n) == IF im = "v1" THEN MathRound2(Percent(profit, n))
                     ELSE Percent(profit, n)
    IN  IF total <= 1 THEN amount(15)
        ELSE IF index = 0 THEN amount(15)
        ELSE IF index = total - 1 THEN 0
        ELSE IF index = 1 \/ index = 2 THEN amount(10)
        ELSE amount(5)

calculateBonusByProfit(im, index, total, seller) ==
    LET profit == seller.profit
        amount(n) == IF im = "v1" THEN MathRound2(Percent(profit, n))
                     ELSE Percent(profit, n)
    IN  IF im \in {"v1", "v2"} /\ total <= 1 THEN amount(15)
        ELSE IF index = 0 THEN amount(15)
        ELSE IF index = 1 \/ index = 2 THEN amount(10)
        ELSE IF index = total - 1 THEN 0
        ELSE amount(5)

\* a caller's bonus policy that ignores the profit
byRank(index, total, seller) == (total - index) * Cent

CallRevenue(im, f, item, product) ==
    IF f.name = "costPlus" THEN costPlus(item, product)
    ELSE calculateSimpleRevenue(im, item, product)

CallBonus(im, f, index, total, seller) ==
    IF f.name = "byRank" THEN byRank(index, total, seller)
    ELSE calculateBonusByProfit(im, index, total, seller)

----------------------------------------------------------------------------
(* analyzeSalesData: validation *)

IsArray(c) == c.shape = "array"

\* a validator that forgets the length
BadCollectionAnyLength(c) == ~IsArray(c)

\* !Array.isArray(data[collection]) || data[collection].length === 0
BadCollection(c) == ~IsArray(c) \/ Len(c.val) = 0

\* the Error thrown by the checks that open analyzeSalesData, "" when none
ValidationError(im, d, o) ==
    LET f == o.calculateRevenue
        g == o.calculateBonus
        dataBad ==
            IF im = "main"
            THEN \/ d.kind = "absent"
                 \/ BadCollection(d.sellers)
                 \/ BadCollection(d.products)
                 \/ BadCollection(d.purchase_records)
                 \/ ~IsArray(d.customers)
            ELSE \/ d.kind # "object"
                 \/ \E c \in {d.sellers, d.products, d.purchase_records} :
                        BadCollection(c)
    IN  IF dataBad THEN "invalid data"
        ELSE IF o.kind # "object" THEN "options is not an object"
        ELSE IF im = "main" /\ (f.kind = "absent" \/ g.kind = "absent")
             THEN "options lack the functions"
        ELSE IF f.kind # "function" \/ g.kind # "function"
             THEN "options hold no functions"
        ELSE ""

----------------------------------------------------------------------------
(* analyzeSalesData: the accumulators *)

\* data.sellers.map(...): bonus and top_products are the properties that
\* the later steps add to each accumulator
InitialStats(sellers) ==
    [i \in 1..Len(sellers) |->
        [id |-> sellers[i].id,
         name |-> <<sellers[i].first_name, sellers[i].last_name>>,
         revenue |-> 0, profit |-> 0, sales_count |-> 0,
         products_sold |-> <<>>, bonus |-> 0, top_products |-> <<>>]]

\* a lookup that falls back on the first accumulator
SellerIndexOrFirst(stats, id) ==
    LET at == {i \in 1..Len(stats) : stats[i].id = id}
    IN  IF at = {} THEN 1 ELSE CHOOSE i \in at : \A j \in at : j <= i

\* sellerIndex[id]: the position in sellerStats of the accumulator stored
\* last under that key, 0 when the key is not there
SellerIndex(stats, id) ==
    LET at == {i \in 1..Len(stats) : stats[i].id = id}
    IN  IF at = {} THEN 0 ELSE CHOOSE i \in at : \A j \in at : j <= i

\* productIndex[sku]
ProductIndex(products, sku) ==
    LET at == {i \in 1..Len(products) : products[i].sku = sku}
    IN  IF at = {} THEN Absent
        ELSE products[CHOOSE i \in at : \A j \in at : j <= i]

\* products_sold[sku], 0 standing for undefined as well
SoldQuantity(sold, sku) ==
    LET at == {i \in 1..Len(sold) : sold[i].sku = sku}
    IN  IF at = {} THEN 0 ELSE sold[CHOOSE i \in at : TRUE].quantity

\* if (!products_sold[sku]) products_sold[sku] = 0;
\* products_sold[sku] += quantity
AddSold(sold, sku, quantity) ==
    IF \E i \in 1..Len(sold) : sold[i].sku = sku
    THEN [i \in 1..Len(sold) |->
            IF sold[i].sku = sku
            THEN [sold[i] EXCEPT !.quantity = @ + quantity]
            ELSE sold[i]]
    ELSE Append(sold, [sku |-> sku, quantity |-> quantity])

ItemCost(im, product, item) ==
    IF ~product.known THEN 0
    ELSE IF im = "v1" THEN MathRound2(product.purchase_price * item.quantity)
    ELSE product.purchase_price * item.quantity

\* the body of record.items.forEach
FoldItem(im, f, products, seller, item) ==
    LET product == ProductIndex(products, item.sku)
        cost == ItemCost(im, product, item)
        revenue == CallRevenue(im, f, item, product)
    IN  [seller EXCEPT
            !.revenue = IF im = "v2" THEN @ ELSE @ + revenue,
            !.profit = @ + (revenue - cost),
            !.products_sold = AddSold(@, item.sku, item.quantity)]

RECURSIVE FoldItems(_, _, _, _, _)
FoldItems(im, f, products, seller, items) ==
    IF items = <<>> THEN seller
    ELSE FoldItems(im, f, products,
                   FoldItem(im, f, products, seller, Head(items)), Tail(items))

\* the body of data.purchase_records.forEach
FoldRecord(im, f, products, stats, record) ==
    LET i == SellerIndex(stats, record.seller_id)
    IN  IF i = 0 THEN stats
        ELSE LET counted ==
                    [stats[i] EXCEPT
                        !.sales_count = @ + 1,
                        !.revenue = IF im = "v2" THEN @ + record.total_amount
                                    ELSE @]
             IN  [stats EXCEPT
                    ![i] = FoldItems(im, f, products, counted, record.items)]

\* the calls of calculateRevenue that the body makes for one record
RevenueCallsOf(stats, products, r, record) ==
    IF SellerIndex(stats, record.seller_id) = 0 THEN <<>>
    ELSE [k \in 1..Len(record.items) |->
            [record |-> r, item |-> record.items[k],
             product |-> ProductIndex(products, record.items[k].sku)]]

\* v1: sellerStats.forEach(... Math.round(x * 100) / 100)
RoundStats(stats) ==
    [i \in 1..Len(stats) |->
        [stats[i] EXCEPT !.revenue = MathRound2(@), !.profit = MathRound2(@)]]

----------------------------------------------------------------------------
(* analyzeSalesData: ranking, bonuses and the report *)

\* a ranking that leaves the sellers in the order of the input
InsertLast(sorted, x) == Append(sorted, x)

\* a sort that puts an element in front of the elements it ties with
InsertBeforeEqual(sorted, x) ==
    LET notLarger == {i \in 1..Len(sorted) : sorted[i].profit <= x.profit}
        at == IF notLarger = {} THEN Len(sorted) + 1
              ELSE CHOOSE i \in notLarger : \A j \in notLarger : i <= j
    IN  SubSeq(sorted, 1, at - 1) \o <<x>> \o SubSeq(sorted, at, Len(sorted))

\* Array.prototype.sort keeps the order of the elements its comparator calls
\* equal; with (a, b) => b.profit - a.profit an element goes in front of the
\* first one of smaller profit
InsertByProfit(sorted, x) ==
    LET smaller == {i \in 1..Len(sorted) : sorted[i].profit < x.profit}
        at == IF smaller = {} THEN Len(sorted) + 1
              ELSE CHOOSE i \in smaller : \A j \in smaller : i <= j
    IN  SubSeq(sorted, 1, at - 1) \o <<x>> \o SubSeq(sorted, at, Len(sorted))

RECURSIVE SortFrom(_, _)
SortFrom(sorted, rest) ==
    IF rest = <<>> THEN sorted
    ELSE SortFrom(InsertByProfit(sorted, Head(rest)), Tail(rest))

\* sellerStats.sort((a, b) => b.profit - a.profit)
SortByProfit(stats) == SortFrom(<<>>, stats)

\* the array index that a property key denotes, -1 when it denotes none
ArrayIndexOf(key) ==
    CASE key = "10" -> 10
      [] key = "2" -> 2
      [] OTHER -> -1

\* Object.entries(object): the keys that are array indices first, in
\* ascending numeric order, then the other keys in the order of creation
ObjectEntries(sold) ==
    LET numeric == {i \in 1..Len(sold) : ArrayIndexOf(sold[i].sku) >= 0}
        rank(i) == Cardinality({j \in numeric :
                        ArrayIndexOf(sold[j].sku) < ArrayIndexOf(sold[i].sku)})
        first == [k \in 1..Cardinality(numeric) |->
                    sold[CHOOSE i \in numeric : rank(i) = k - 1]]
        others == SelectSeq(sold, LAMBDA e : ArrayIndexOf(e.sku) < 0)
    IN  first \o others

\* a list of top products left in the order of Object.entries
InsertEntryLast(sorted, x) == Append(sorted, x)

InsertByQuantity(sorted, x) ==
    LET smaller == {i \in 1..Len(sorted) : sorted[i].quantity < x.quantity}
        at == IF smaller = {} THEN Len(sorted) + 1
              ELSE CHOOSE i \in smaller : \A j \in smaller : i <= j
    IN  SubSeq(sorted, 1, at - 1) \o <<x>> \o SubSeq(sorted, at, Len(sorted))

RECURSIVE SortQuantityFrom(_, _)
SortQuantityFrom(sorted, rest) ==
    IF rest = <<>> THEN sorted
    ELSE SortQuantityFrom(InsertByQuantity(sorted, Head(rest)), Tail(rest))

\* .sort((a, b) => b.quantity - a.quantity)
SortByQuantity(entries) == SortQuantityFrom(<<>>, entries)

\* Object.entries(...).map(...).sort(...).slice(0, 10)
TopProducts(sold) == Take(SortByQuantity(ObjectEntries(sold)), TopN)

\* sellerStats.forEach((seller, index) => ...): index counts from 0; main.js
\* builds top_products in the same loop
AssignBonus(im, g, stats) ==
    [i \in 1..Len(stats) |->
        [stats[i] EXCEPT
            !.bonus = CallBonus(im, g, i - 1, Len(stats), stats[i]),
            !.top_products = IF im = "main" THEN TopProducts(stats[i].products_sold)
                             ELSE @]]

BonusCallsOf(stats) ==
    [i \in 1..Len(stats) |->
        [index |-> i - 1, total |-> Len(stats), seller |-> stats[i].id]]

\* how each copy rounds a monetary field of the report
Rounded(im, x) ==
    CASE im = "main" -> ToFixed2(x)
      [] im = "v1" -> x
      [] im = "v2" -> ToFixed2(x)
      [] im = "v3" -> MathRound2(x)

\* the object literal that the return statement builds for one seller
ReportEntry(im, seller) ==
    [seller_id |-> seller.id,
     name |-> seller.name,
     revenue |-> Rounded(im, seller.revenue),
     profit |-> Rounded(im, seller.profit),
     sales_count |-> seller.sales_count,
     top_products |-> IF im = "main" THEN seller.top_products
                      ELSE TopProducts(seller.products_sold),
     bonus |-> Rounded(im, seller.bonus)]

\* a report of the sellers who sold something
ReportOfActive(im, stats) ==
    LET active == SelectSeq(stats, LAMBDA x : x.sales_count > 0)
    IN  [i \in 1..Len(active) |-> ReportEntry(im, active[i])]

\* return sellerStats.map(seller => ({...}))
Report(im, stats) == [i \in 1..Len(stats) |-> ReportEntry(im, stats[i])]

----------------------------------------------------------------------------
(* analyzeSalesData as one function of its arguments *)

RECURSIVE Accumulate(_, _, _, _, _)
Accumulate(im, f, products, stats, records) ==
    IF records = <<>> THEN stats
    ELSE Accumulate(im, f, products,
                    FoldRecord(im, f, products, stats, Head(records)),
                    Tail(records))

\* sellerStats when the return statement is reached
RankedStats(im, d, o) ==
    LET folded == Accumulate(im, o.calculateRevenue, d.products.val,
                             InitialStats(d.sellers.val),
                             d.purchase_records.val)
        totals == IF im = "v1" THEN RoundStats(folded) ELSE folded
    IN  AssignBonus(im, o.calculateBonus, SortByProfit(totals))

analyzeSalesData(im, d, o) ==
    LET thrown == ValidationError(im, d, o)
    IN  IF thrown # "" THEN [error |-> thrown, result |-> <<>>]
        ELSE [error |-> "", result |-> Report(im, RankedStats(im, d, o))]

----------------------------------------------------------------------------
(* The calls *)

Init ==
    /\ impl \in Impls
    /\ \/ /\ fn = "analyzeSalesData"
          /\ \/ data \in ContentData /\ options \in ValidOptions
             \/ data \in ShapeData \cup NoData /\ options \in ShapeOptions
          /\ bonusArgs = IdleBonusArgs
          /\ pc = "validate"
       \/ /\ fn = "calculateBonusByProfit"
          /\ bonusArgs \in BonusArgs
          /\ bonusArgs.index < bonusArgs.total
          /\ data = IdleData
          /\ options = IdleOptions
          /\ pc = "bonus"
    /\ sellerStats = <<>>
    /\ cursor = 0
    /\ revenueCalls = <<>>
    /\ bonusCalls = <<>>
    /\ error = ""
    /\ result = <<>>
    /\ bonusResult = 0

\* the checks of the arguments
Validate ==
    /\ pc = "validate"
    /\ error' = ValidationError(impl, data, options)
    /\ pc' = IF error' # "" THEN "thrown" ELSE "prepare"
    /\ UNCHANGED <<fn, impl, data, options, bonusArgs, sellerStats, cursor,
                   revenueCalls, bonusCalls, result, bonusResult>>

\* const sellerStats, sellerIndex, productIndex
Prepare ==
    /\ pc = "prepare"
    /\ sellerStats' = InitialStats(data.sellers.val)
    /\ cursor' = 1
    /\ pc' = "fold"
    /\ UNCHANGED <<fn, impl, data, options, bonusArgs, revenueCalls,
                   bonusCalls, error, result, bonusResult>>

\* one turn of data.purchase_records.forEach
FoldNextRecord ==
    /\ pc = "fold"
    /\ cursor <= Len(data.purchase_records.val)
    /\ LET record == data.purchase_records.val[cursor]
       IN  /\ sellerStats' = FoldRecord(impl, options.calculateRevenue,
                                        data.products.val, sellerStats, record)
           /\ revenueCalls' = revenueCalls \o
                RevenueCallsOf(sellerStats, data.products.val, cursor, record)
    /\ cursor' = cursor + 1
    /\ pc' = IF cursor < Len(data.purchase_records.val) THEN "fold"
             ELSE IF impl = "v1" THEN "round" ELSE "sort"
    /\ UNCHANGED <<fn, impl, data, options, bonusArgs, bonusCalls, error,
                   result, bonusResult>>

\* v1 rounds the totals before it ranks
RoundTotals ==
    /\ pc = "round"
    /\ sellerStats' = RoundStats(sellerStats)
    /\ pc' = "sort"
    /\ UNCHANGED <<fn, impl, data, options, bonusArgs, cursor, revenueCalls,
                   bonusCalls, error, result, bonusResult>>

SortSellers ==
    /\ pc = "sort"
    /\ sellerStats' = SortByProfit(sellerStats)
    /\ pc' = "assign"
    /\ UNCHANGED <<fn, impl, data, options, bonusArgs, cursor, revenueCalls,
                   bonusCalls, error, result, bonusResult>>

AssignBonuses ==
    /\ pc = "assign"
    /\ sellerStats' = AssignBonus(impl, options.calculateBonus, sellerStats)
    /\ bonusCalls' = BonusCallsOf(sellerStats)
    /\ pc' = "return"
    /\ UNCHANGED <<fn, impl, data, options, bonusArgs, cursor, revenueCalls,
                   error, result, bonusResult>>

Return ==
    /\ pc = "return"
    /\ result' = Report(impl, sellerStats)
    /\ pc' = "done"
    /\ UNCHANGED <<fn, impl, data, options, bonusArgs, sellerStats, cursor,
                   revenueCalls, bonusCalls, error, bonusResult>>

\* a direct call of calculateBonusByProfit(index, total, seller)
CallBonusByProfit ==
    /\ pc = "bonus"
    /\ bonusResult' = calculateBonusByProfit(impl, bonusArgs.index,
                            bonusArgs.total, [profit |-> bonusArgs.profit])
    /\ pc' = "returned"
    /\ UNCHANGED <<fn, impl, data, options, bonusArgs, sellerStats, cursor,
                   revenueCalls, bonusCalls, error, result>>

Next ==
    \/ Validate
    \/ Prepare
    \/ FoldNextRecord
    \/ RoundTotals
    \/ SortSellers
    \/ AssignBonuses
    \/ Return
    \/ CallBonusByProfit

Spec == Init /\ [][Next]_vars

----------------------------------------------------------------------------
(* What the claims speak of, stated from the arguments of the call *)

Analyzing == fn = "analyzeSalesData"

Done == Analyzing /\ pc = "done"

InputSellers == data.sellers.val

InputRecords == data.purchase_records.val

KnownSeller(id) == \E i \in 1..Len(InputSellers) : InputSellers[i].id = id

\* the purchase records that carry the seller_id id
RecordsOf(id) == SelectSeq(InputRecords, LAMBDA r : r.seller_id = id)

Count(s, Test(_)) == Cardinality({i \in 1..Len(s) : Test(s[i])})

----------------------------------------------------------------------------
\* C1: once validation has passed, the report holds exactly one entry for
\* each element of data.sellers (as many entries as sellers, each seller's id
\* as often as data.sellers holds it), whatever the purchase records are.
C1_OneEntryPerSeller ==
    Done =>
        /\ error = ""
        /\ Len(result) = Len(InputSellers)
        /\ \A i \in 1..Len(InputSellers) :
              Count(result, LAMBDA e : e.seller_id = InputSellers[i].id)
                = Count(InputSellers, LAMBDA x : x.id = InputSellers[i].id)

\* a report for two sellers, one of them without any record, from records
\* of which one names an unknown seller
C1_Witness ==
    /\ Done
    /\ Len(InputSellers) = 2
    /\ \E i \in 1..2 : RecordsOf(InputSellers[i].id) = <<>>
    /\ \E i \in 1..2 : RecordsOf(InputSellers[i].id) # <<>>
    /\ RecordsOf(NoSeller) # <<>>

----------------------------------------------------------------------------
\* the arguments that C2 names: data absent or no object, a required
\* collection absent, no array or empty, options absent or no object, a
\* policy absent or no function
RequiredCollections == {data.sellers, data.products, data.purchase_records}

InvalidArguments ==
    \/ data.kind \in {"absent", "primitive"}
    \/ \E c \in RequiredCollections : c.shape # "array" \/ c.val = <<>>
    \/ options.kind \in {"absent", "primitive"}
    \/ options.calculateRevenue.kind # "function"
    \/ options.calculateBonus.kind # "function"

\* C2: a call with such arguments ends in an error and returns nothing, and
\* it does so before any accumulation: no accumulator is built and neither
\* calculateRevenue nor calculateBonus is called.
C2_InvalidArgumentsThrow ==
    (Analyzing /\ InvalidArguments /\ pc # "validate") =>
        /\ pc = "thrown"
        /\ error # ""
        /\ result = <<>>
        /\ sellerStats = <<>>
        /\ revenueCalls = <<>>
        /\ bonusCalls = <<>>

\* thrown for nothing but an empty purchase_records
C2_Witness ==
    /\ Analyzing /\ pc = "thrown"
    /\ data.kind = "object"
    /\ data.purchase_records = Collection("array", <<>>)
    /\ \A c \in RequiredCollections \ {data.purchase_records} :
          c.shape = "array" /\ c.val # <<>>
    /\ data.customers.shape = "array"
    /\ options.kind = "object"
    /\ options.calculateRevenue.kind = "function"
    /\ options.calculateBonus.kind = "function"

----------------------------------------------------------------------------
\* C3: three non-empty arrays sellers, products, purchase_records and two
\* functions in options are all that validation asks for: the call returns
\* a report whether customers is an array, absent or something else.
C3_ThreeCollectionsSuffice ==
    (/\ Analyzing /\ pc # "validate"
     /\ data.kind = "object"
     /\ \A c \in RequiredCollections : c.shape = "array" /\ c.val # <<>>
     /\ options.kind = "object"
     /\ options.calculateRevenue.kind = "function"
     /\ options.calculateBonus.kind = "function")
        => error = "" /\ pc # "thrown"

----------------------------------------------------------------------------
\* C4: the report is ordered by profit, descending: each entry's profit is
\* at least the next entry's.
C4_ProfitDescending ==
    Done => \A i \in 1..(Len(result) - 1) :
                result[i].profit >= result[i + 1].profit

\* a report whose first entry is the second seller of the input, with a
\* negative profit below it
C4_Witness ==
    /\ Done
    /\ Len(result) = 2
    /\ result[1].seller_id = InputSellers[2].id
    /\ result[1].profit > result[2].profit
    /\ result[2].profit < 0

----------------------------------------------------------------------------
\* the share of the profit, in percent, that rank index of total earns: 15
\* at index 0, 10 at indices 1 and 2 (also when that rank is the last), 0 at
\* a last rank of index 3 or more, 5 at every rank between
TierPercent(index, total) ==
    CASE index = 0 -> 15
      [] index \in {1, 2} -> 10
      [] index >= 3 /\ index = total - 1 -> 0
      [] index >= 3 /\ index # total - 1 -> 5

\* amount is profit * percent / 100, exactly or, in the copy v1 that rounds
\* inside the policy, to the nearest cent with a half going up
IsTierAmount(im, amount, profit, percent) ==
    IF im = "v1"
    THEN /\ amount % Cent = 0
         /\ 100 * amount <= profit * percent + 50 * Cent
         /\ profit * percent + 50 * Cent < 100 * amount + 100 * Cent
    ELSE 100 * amount = profit * percent

DefaultBonus == options.calculateBonus.name = "calculateBonusByProfit"

\* C5, as amended: calculateBonusByProfit pays 15 % of the profit at index
\* 0, 10 % at indices 1 and 2 even when that index is the last rank, 0 at
\* the last rank when its index is 3 or more, 5 % at the other ranks, and
\* 15 % to a single seller; v1 rounds each amount to the cent.  The same
\* holds of the bonus that analyzeSalesData assigns with this policy.
C5_TiersByCascade ==
    /\ (fn = "calculateBonusByProfit" /\ pc = "returned") =>
          IsTierAmount(impl, bonusResult, bonusArgs.profit,
                       TierPercent(bonusArgs.index, bonusArgs.total))
    /\ (Analyzing /\ DefaultBonus /\ pc = "return") =>
          \A i \in 1..Len(sellerStats) :
              IsTierAmount(impl, sellerStats[i].bonus, sellerStats[i].profit,
                           TierPercent(i - 1, Len(sellerStats)))

\* the last of three ranks is paid 10 % of a profit that is not 0
C5_Witness ==
    /\ fn = "calculateBonusByProfit" /\ pc = "returned"
    /\ bonusArgs.total = 3 /\ bonusArgs.index = 2
    /\ bonusArgs.profit # 0
    /\ bonusResult # 0

\* C5, as stated: for total >= 2 index 0 earns 15 %, ranks 1-2 earn 10 %,
\* the last rank earns exactly 0 and every other rank 5 %; a single seller
\* earns 15 %.
C5_TiersAsStated ==
    (fn = "calculateBonusByProfit" /\ pc = "returned") =>
        LET index == bonusArgs.index
            total == bonusArgs.total
            profit == bonusArgs.profit
        IN  /\ total = 1 => 100 * bonusResult = profit * 15
            /\ total >= 2 =>
                /\ index = 0 => 100 * bonusResult = profit * 15
                /\ index \in {1, 2} => 100 * bonusResult = profit * 10
                /\ index = total - 1 => bonusResult = 0
                /\ (index >= 3 /\ index # total - 1) =>
                        100 * bonusResult = profit * 5

----------------------------------------------------------------------------
\* the purchase records left when those of unknown sellers are removed
KeptRecords == SelectSeq(InputRecords, LAMBDA r : KnownSeller(r.seller_id))

DataWithoutSkipped == [data EXCEPT !.purchase_records.val = KeptRecords]

NoCallForSkipped ==
    \A k \in 1..Len(revenueCalls) :
        KnownSeller(InputRecords[revenueCalls[k].record].seller_id)

\* C6, as stated: the report equals the report computed with the records of
\* unknown sellers removed, and calculateRevenue is called on no item of
\* such a record.
C6_SkippedAsStated ==
    Done =>
        /\ analyzeSalesData(impl, DataWithoutSkipped, options)
             = [error |-> "", result |-> result]
        /\ NoCallForSkipped

\* C6, as amended: calculateRevenue is called on no item of a record of an
\* unknown seller; when at least one other record is there, the report
\* equals the report computed with such records removed; when there is no
\* other record, every entry of the report shows revenue 0, profit 0,
\* sales_count 0 and no top product, whereas the call without the records
\* throws, purchase_records being empty.
C6_SkippedEntirely ==
    Done =>
        /\ NoCallForSkipped
        /\ KeptRecords # <<>> =>
              analyzeSalesData(impl, DataWithoutSkipped, options)
                = [error |-> "", result |-> result]
        /\ KeptRecords = <<>> =>
              /\ analyzeSalesData(impl, DataWithoutSkipped, options).error # ""
              /\ \A i \in 1..Len(result) :
                    /\ result[i].revenue = 0
                    /\ result[i].profit = 0
                    /\ result[i].sales_count = 0
                    /\ result[i].top_products = <<>>

\* a report from a record that is skipped, with items, and one that is not
C6_Witness ==
    /\ Done
    /\ \E i \in 1..Len(InputRecords) :
          ~KnownSeller(InputRecords[i].seller_id) /\ InputRecords[i].items # <<>>
    /\ \E i \in 1..Len(KeptRecords) : KeptRecords[i].items # <<>>

----------------------------------------------------------------------------
(* The totals that the claims state, computed from the arguments *)

\* the fold is over and no total has been rounded yet; the accumulators
\* still stand in the order of data.sellers
AfterFold == Analyzing /\ pc = (IF impl = "v1" THEN "round" ELSE "sort")

\* all the items of the records that carry the seller_id id, in input order
ItemsOf(id) ==
    LET records == RecordsOf(id)
    IN  Flatten([k \in 1..Len(records) |-> records[k].items])

InProducts(sku) ==
    \E j \in 1..Len(data.products.val) : data.products.val[j].sku = sku

\* the card of data.products for an item, Absent when there is none
CardOf(item) ==
    IF InProducts(item.sku)
    THEN data.products.val[CHOOSE j \in 1..Len(data.products.val) :
                                data.products.val[j].sku = item.sku]
    ELSE Absent

RevenueOf(item) ==
    CallRevenue(impl, options.calculateRevenue, item, CardOf(item))

CostOf(item) ==
    IF InProducts(item.sku) THEN CardOf(item).purchase_price * item.quantity
    ELSE 0

\* the sum of item.quantity over the seller's items of one SKU
SoldSum(id, sku) ==
    LET items == SelectSeq(ItemsOf(id), LAMBDA it : it.sku = sku)
    IN  SumSeq([k \in 1..Len(items) |-> items[k].quantity])

SkusSoldBy(id) == {it.sku : it \in Range(ItemsOf(id))}

\* the place of the first item with this SKU among the seller's items
FirstSeen(id, sku) ==
    LET items == ItemsOf(id)
    IN  CHOOSE k \in 1..Len(items) :
            items[k].sku = sku /\ \A j \in 1..(k - 1) : items[j].sku # sku

----------------------------------------------------------------------------
\* the input with every line item of an unknown SKU taken out
WithoutUnknownSkus ==
    [k \in 1..Len(InputRecords) |->
        [InputRecords[k] EXCEPT
            !.items = SelectSeq(@, LAMBDA it : InProducts(it.sku))]]

UnknownItemsOf(id) == SelectSeq(ItemsOf(id), LAMBDA it : ~InProducts(it.sku))

\* C7: a line item of an attributed record whose SKU is not in
\* data.products adds calculateRevenue(item, absent) to the seller's revenue
\* and the same amount to the seller's profit, and adds its quantity to the
\* quantity sold of that SKU, which then stands in top_products when there
\* is room.
C7_UnknownSkuCounts ==
    /\ AfterFold =>
          LET without == Accumulate(impl, options.calculateRevenue,
                                    data.products.val,
                                    InitialStats(InputSellers),
                                    WithoutUnknownSkus)
          IN  \A i \in 1..Len(sellerStats) :
                LET items == UnknownItemsOf(sellerStats[i].id)
                    gain == SumSeq([k \in 1..Len(items) |->
                                CallRevenue(impl, options.calculateRevenue,
                                            items[k], Absent)])
                IN  /\ sellerStats[i].revenue - without[i].revenue = gain
                    /\ sellerStats[i].profit - without[i].profit = gain
                    /\ \A it \in Range(items) :
                          SoldQuantity(sellerStats[i].products_sold, it.sku)
                            = SoldSum(sellerStats[i].id, it.sku)
    /\ Done =>
          \A i \in 1..Len(result) :
              \A it \in Range(UnknownItemsOf(result[i].seller_id)) :
                  Cardinality(SkusSoldBy(result[i].seller_id)) <= TopN =>
                      \E k \in 1..Len(result[i].top_products) :
                          result[i].top_products[k] =
                              [sku |-> it.sku,
                               quantity |-> SoldSum(result[i].seller_id, it.sku)]

----------------------------------------------------------------------------
\* C8: top_products holds at most 10 elements, in descending order of
\* quantity; each quantity is the sum of item.quantity over the seller's
\* items of that SKU; every SKU sold is there when the seller sold at most
\* 10, and otherwise no SKU left out sold more than one that is kept.
C8_TopProducts ==
    Done =>
        \A i \in 1..Len(result) :
            LET top == result[i].top_products
                id == result[i].seller_id
                sold == SkusSoldBy(id)
                kept == {top[k].sku : k \in 1..Len(top)}
            IN  /\ Len(top) <= TopN
                /\ \A k \in 1..(Len(top) - 1) :
                      top[k].quantity >= top[k + 1].quantity
                /\ \A k \in 1..Len(top) :
                      /\ top[k].sku \in sold
                      /\ top[k].quantity = SoldSum(id, top[k].sku)
                /\ Cardinality(kept) = Len(top)
                /\ Len(top) = IF Cardinality(sold) <= TopN
                              THEN Cardinality(sold) ELSE TopN
                /\ \A out \in sold \ kept : \A k \in 1..Len(top) :
                      SoldSum(id, out) <= top[k].quantity

\* a seller who sold more than 10 SKUs, in different quantities, and whose
\* list had to leave one out
C8_Witness ==
    /\ Done
    /\ \E i \in 1..Len(result) :
          LET top == result[i].top_products
          IN  /\ Cardinality(SkusSoldBy(result[i].seller_id)) > TopN
              /\ Len(top) = TopN
              /\ top[1].quantity > top[TopN].quantity
              /\ Len(RecordsOf(result[i].seller_id)) > 1

----------------------------------------------------------------------------
\* C9: SKUs of equal summed quantity stand in top_products in the order in
\* which the fold first met them, whatever the SKU strings are, and that
\* order decides which of them is kept at the cut after 10 entries.
C9_TiesInFirstSeenOrder ==
    Done =>
        \A i \in 1..Len(result) :
            LET top == result[i].top_products
                id == result[i].seller_id
                kept == {top[k].sku : k \in 1..Len(top)}
            IN  /\ \A a, b \in 1..Len(top) :
                      (a < b /\ top[a].quantity = top[b].quantity) =>
                          FirstSeen(id, top[a].sku) < FirstSeen(id, top[b].sku)
                /\ \A out \in SkusSoldBy(id) \ kept : \A k \in 1..Len(top) :
                      SoldSum(id, out) = top[k].quantity =>
                          FirstSeen(id, top[k].sku) < FirstSeen(id, out)

----------------------------------------------------------------------------
\* C10: before any rounding, each seller's sales_count is the number of
\* purchase records that carry the seller's id, revenue is the sum of
\* calculateRevenue(item, product) over their items and profit the sum of
\* calculateRevenue(item, product) minus purchase_price * quantity (minus 0
\* without a product); total_amount plays no part, and a seller without a
\* record shows 0, 0, 0 and no top product.
C10_TotalsFromItems ==
    /\ AfterFold =>
          \A i \in 1..Len(sellerStats) :
              LET id == InputSellers[i].id
                  items == ItemsOf(id)
              IN  /\ sellerStats[i].id = id
                  /\ sellerStats[i].sales_count = Len(RecordsOf(id))
                  /\ sellerStats[i].revenue =
                        SumSeq([k \in 1..Len(items) |-> RevenueOf(items[k])])
                  /\ sellerStats[i].profit =
                        SumSeq([k \in 1..Len(items) |->
                                    RevenueOf(items[k]) - CostOf(items[k])])
    /\ Done =>
          \A i \in 1..Len(result) :
              RecordsOf(result[i].seller_id) = <<>> =>
                  /\ result[i].revenue = 0
                  /\ result[i].profit = 0
                  /\ result[i].sales_count = 0
                  /\ result[i].top_products = <<>>

----------------------------------------------------------------------------
\* the profit a seller has accumulated from the items of their records
AccumulatedProfit(id) ==
    LET items == ItemsOf(id)
    IN  SumSeq([k \in 1..Len(items) |-> RevenueOf(items[k]) - CostOf(items[k])])

\* the position of the seller id in data.sellers
InputPosition(id) ==
    CHOOSE i \in 1..Len(InputSellers) : InputSellers[i].id = id

Ranked == Analyzing /\ pc \in {"assign", "return", "done"}

\* C11: ranking is stable: two sellers whose accumulated profit is exactly
\* equal stand in the ranking, and then in the report, in the order they have
\* in data.sellers, and calculateBonus is called for the seller at rank k
\* with index k - 1, so that among tied sellers the one that comes first in
\* the input gets the smaller index.
C11_StableRanking ==
    /\ Ranked =>
          \A a, b \in 1..Len(sellerStats) :
              (/\ a < b
               /\ AccumulatedProfit(sellerStats[a].id) =
                     AccumulatedProfit(sellerStats[b].id))
                  => InputPosition(sellerStats[a].id) <
                        InputPosition(sellerStats[b].id)
    /\ (Analyzing /\ pc \in {"return", "done"}) =>
          /\ Len(bonusCalls) = Len(sellerStats)
          /\ \A k \in 1..Len(sellerStats) :
                 /\ bonusCalls[k].index = k - 1
                 /\ bonusCalls[k].seller = sellerStats[k].id
    /\ Done =>
          /\ Len(result) = Len(sellerStats)
          /\ \A k \in 1..Len(result) :
                 result[k].seller_id = sellerStats[k].id

\* two sellers with sales and the same profit, other than zero, are reported
\* in input order and the default policy gives them different bonuses
C11_Witness ==
    /\ Done
    /\ Len(InputSellers) = 2
    /\ options.calculateBonus = Callable("calculateBonusByProfit")
    /\ RecordsOf(InputSellers[1].id) # <<>>
    /\ RecordsOf(InputSellers[2].id) # <<>>
    /\ AccumulatedProfit(InputSellers[1].id) =
          AccumulatedProfit(InputSellers[2].id)
    /\ AccumulatedProfit(InputSellers[1].id) # 0
    /\ result[1].seller_id = InputSellers[1].id
    /\ result[2].seller_id = InputSellers[2].id
    /\ bonusCalls[1] = [index |-> 0, total |-> 2, seller |-> InputSellers[1].id]
    /\ bonusCalls[2] = [index |-> 1, total |-> 2, seller |-> InputSellers[2].id]
    /\ sellerStats[1].bonus # sellerStats[2].bonus

====
